---- MODULE Spec2Model ----
(***************************************************************************)
(* Model of src/main.py, the IPL analytics dashboard (one Streamlit        *)
(* script).  Three groups of state:                                        *)
(*   - the script as written (module namespace, position, error);          *)
(*   - load_data() and the st.cache_data memo around it;                   *)
(*   - one render pass from the sidebar filters to the four tabs, run on   *)
(*     tables given as sequences of rows (pandas DataFrames).              *)
(* Floating point: round(x, 2) is modelled exactly, in hundredths;         *)
(* unrounded quotients (win_pct) are kept as exact fractions <<n, d>>.     *)
(***************************************************************************)
EXTENDS Integers, Sequences, FiniteSets, TLC

\* ------------------------------------------------------------- bounds
MaxMatches == 2
MaxDeliveries == 2
MaxBalls == 7
MaxPasses == 3

\* ------------------------------------------------- program constants
TopNMin == 5
TopNDefault == 10
TopNMax == 30
BallsPerOver == 6
NumCanonicalCols == 20

\* ------------------------------------------------------ pandas values
\* A missing value of a numeric column (NaN) and of a text column (NaN/None).
NaN == -1
NaS == "NaN"
\* selectbox with no options returns None
NoSelection == "None"
\* a panel record before the panel has run in this pass
NotRun == [ran |-> FALSE]

\* isna() of a numeric value and of a text value
IsNaN(v) == v = NaN
IsNaS(v) == v = NaS

\* Series.isin(values): membership; a missing value matches a missing value.
Isin(v, values) == v \in values

\* Lexicographic order of the names the model uses (sorted(), groupby keys).
Alphabet == <<"A", "B", "C", "p", "q", "x", "y">>
NameRank(n) == CHOOSE i \in DOMAIN Alphabet : Alphabet[i] = n

RECURSIVE SortedInts(_)
SortedInts(S) ==
  IF S = {} THEN <<>>
  ELSE LET m == CHOOSE x \in S : \A y \in S : x <= y
       IN <<m>> \o SortedInts(S \ {m})

RECURSIVE SortedNames(_)
SortedNames(S) ==
  IF S = {} THEN <<>>
  ELSE LET m == CHOOSE x \in S : \A y \in S : NameRank(x) <= NameRank(y)
       IN <<m>> \o SortedNames(S \ {m})

\* the values of column col
Values(t, col) == {t[i][col] : i \in DOMAIN t}
\* Series.dropna().unique() as a set, for a numeric and for a text column
NonNullInts(t, col) == {v \in Values(t, col) : ~IsNaN(v)}
NonNullNames(t, col) == {v \in Values(t, col) : ~IsNaS(v)}

\* Series.sum()
RECURSIVE SumCol(_, _)
SumCol(t, col) ==
  IF t = <<>> THEN 0 ELSE t[1][col] + SumCol(Tail(t), col)

\* df[df[col] == v]
RowsEq(t, col, v) == SelectSeq(t, LAMBDA r : r[col] = v)

\* groupby(key)[val].count(): rows of the group whose val is not missing
CountNonNull(t, key, k, val) ==
  Len(SelectSeq(t, LAMBDA r : r[key] = k /\ ~IsNaN(r[val])))

\* DataFrame.head(n)
Head_n(t, n) == IF Len(t) <= n THEN t ELSE SubSeq(t, 1, n)

\* sort_values(col, ascending=False), stable on the small frames modelled
RECURSIVE InsertDesc(_, _, _)
InsertDesc(sorted, r, col) ==
  IF sorted = <<>> THEN <<r>>
  ELSE IF sorted[1][col] >= r[col]
       THEN <<sorted[1]>> \o InsertDesc(Tail(sorted), r, col)
       ELSE <<r>> \o sorted

RECURSIVE SortDesc(_, _)
SortDesc(t, col) ==
  IF t = <<>> THEN <<>>
  ELSE InsertDesc(SortDesc(SubSeq(t, 1, Len(t) - 1), col), t[Len(t)], col)

\* round(num / den * 1, 2) in hundredths: Python rounds the quotient to the
\* nearest hundredth, ties to even.  den > 0.
RoundHundredths(num, den) ==
  LET n == 100 * num
      q == n \div den
      r == n % den
  IN IF 2 * r > den \/ (2 * r = den /\ q % 2 = 1) THEN q + 1 ELSE q

VARIABLES
  pc,                 \* position of the script / pass
  pass,               \* number of the render pass (script run)
  error,              \* exception that ended the pass, or "none"
  ns,                 \* names bound in the module namespace of this run
  accessed,           \* table names the pass has evaluated
  shown,              \* what the pass has rendered so far
  mfile, dfile,       \* the two source files in the working directory
  cache,              \* st.cache_data entry of load_data
  file_reads,         \* how often each file has been read by the process
  loaded,             \* what the last load_data() call returned
  matches, deliveries,\* the tables of the pass
  dcols,              \* deliveries.columns
  seasons, selected_seasons, teams, selected_team,
  matches_f, deliveries_f,
  overview, team_stats, batting, bowling

scriptvars == <<ns, accessed>>
loadvars == <<mfile, dfile, cache, file_reads, loaded>>
tablevars == <<matches, deliveries, dcols>>
filtervars == <<seasons, selected_seasons, teams, selected_team>>
derivedvars == <<matches_f, deliveries_f>>
panelvars == <<overview, team_stats, batting, bowling>>
vars == <<pc, pass, error, shown, scriptvars, loadvars, tablevars,
          filtervars, derivedvars, panelvars>>

\* ======================================================= render pass
\* Columns of the deliveries file that the pass reads.
AllDCols == {"match_id", "batter", "bowler", "batsman_runs", "total_runs",
             "extras_type", "is_wicket", "dismissal_kind"}

\* ---- sidebar (lines 65-91)
\* seasons = sorted(matches["season"].dropna().unique())
SeasonOptions(m) == SortedInts(NonNullInts(m, "season"))
\* teams = sorted(unique(concat(team1, team2, winner).dropna()))
TeamOptions(m) ==
  SortedNames(NonNullNames(m, "team1") \cup NonNullNames(m, "team2")
              \cup NonNullNames(m, "winner"))
Range(s) == {s[i] : i \in DOMAIN s}

\* ---- filter derivation (lines 93-98)
\* mutant: no fallback to the whole table for an empty selection
MatchesF_NoFallback(m, sel) == SelectSeq(m, LAMBDA r : Isin(r.season, sel))
\* matches_f: the rows whose season is selected; the whole table when the
\* selection is empty.
MatchesF(m, sel) ==
  IF sel # {} THEN SelectSeq(m, LAMBDA r : Isin(r.season, sel)) ELSE m
\* deliveries_f: the rows whose match_id is one of matches_f["id"]
DeliveriesF(d, mf) ==
  SelectSeq(d, LAMBDA r : Isin(r.match_id, Values(mf, "id")))

\* ---- Team Analysis (lines 203-231)
\* groupby(key)["id"].count().reset_index(): one row per non-missing key,
\* keys ascending
GroupCountId(mf, key) ==
  LET ks == SortedNames(NonNullNames(mf, key))
  IN [i \in DOMAIN ks |->
        [team |-> ks[i], n |-> CountNonNull(mf, key, ks[i], "id")]]
\* value of column n for team t in a grouped frame, or the fill value 0
Lookup0(g, t) ==
  IF \E i \in DOMAIN g : g[i].team = t
  THEN g[CHOOSE i \in DOMAIN g : g[i].team = t].n
  ELSE 0
\* mutant: how="inner", only the teams that were both team1 and team2
InnerMerge(g1, g2) ==
  LET ks == SortedNames({g1[i].team : i \in DOMAIN g1}
                        \cap {g2[i].team : i \in DOMAIN g2})
  IN [i \in DOMAIN ks |->
        [team |-> ks[i],
         matches_home |-> Lookup0(g1, ks[i]),
         matches_away |-> Lookup0(g2, ks[i]),
         matches_played |-> Lookup0(g1, ks[i]) + Lookup0(g2, ks[i])]]
\* pd.merge(team_matches1, team_matches2, on="team", how="outer").fillna(0)
\* and matches_played = matches_home + matches_away
OuterMerge(g1, g2) ==
  LET ks == SortedNames({g1[i].team : i \in DOMAIN g1}
                        \cup {g2[i].team : i \in DOMAIN g2})
  IN [i \in DOMAIN ks |->
        [team |-> ks[i],
         matches_home |-> Lookup0(g1, ks[i]),
         matches_away |-> Lookup0(g2, ks[i]),
         matches_played |-> Lookup0(g1, ks[i]) + Lookup0(g2, ks[i])]]
TeamMatches(mf) ==
  OuterMerge(GroupCountId(mf, "team1"), GroupCountId(mf, "team2"))
\* np.where(matches_played > 0, wins / matches_played * 100, 0) as <<n, d>>
WinPct(wins, played) ==
  IF played > 0 THEN <<wins * 100, played>> ELSE <<0, 1>>
\* pd.merge(team_matches, team_wins, on="team", how="left").fillna(0)
\* and the win_pct column
LeftMergeWins(tm, tw) ==
  [i \in DOMAIN tm |->
     [team |-> tm[i].team,
      matches_home |-> tm[i].matches_home,
      matches_away |-> tm[i].matches_away,
      matches_played |-> tm[i].matches_played,
      wins |-> Lookup0(tw, tm[i].team),
      win_pct |-> WinPct(Lookup0(tw, tm[i].team), tm[i].matches_played)]]
\* team_stats, sorted by wins, descending
TeamStats(mf) ==
  SortDesc(LeftMergeWins(TeamMatches(mf), GroupCountId(mf, "winner")), "wins")

\* ---- Batting Analysis (lines 326-385)
\* groupby("batter")["batsman_runs"].sum().sort_values(descending)
BatterRuns(df) ==
  LET ks == SortedNames(NonNullNames(df, "batter"))
      g == [i \in DOMAIN ks |->
              [batter |-> ks[i],
               batsman_runs |-> SumCol(RowsEq(df, "batter", ks[i]),
                                       "batsman_runs")]]
  IN SortDesc(g, "batsman_runs")
\* p_df = deliveries_f[deliveries_f["batter"] == selected_batter]
PDf(df, selected) == RowsEq(df, "batter", selected)
\* left.merge(matches_f[["id", "season"]], left_on="match_id", right_on="id",
\* how="left"): every left row once per right row with its id, or once with
\* a missing season when there is none
RECURSIVE MergeSeason(_, _)
MergeSeason(df, mf) ==
  IF df = <<>> THEN <<>>
  ELSE LET r == df[1]
           hits == SelectSeq(mf, LAMBDA m : m.id = r.match_id)
           rows == IF hits = <<>>
                   THEN <<[row |-> r, season |-> NaN]>>
                   ELSE [i \in DOMAIN hits |->
                           [row |-> r, season |-> hits[i].season]]
       IN rows \o MergeSeason(Tail(df), mf)
RECURSIVE SumRuns(_)
SumRuns(j) ==
  IF j = <<>> THEN 0 ELSE j[1].row.batsman_runs + SumRuns(Tail(j))
\* mutant: the join is not restricted to the selected batter
BatSeasonGrp_AllBatters(df, mf, selected) ==
  LET j == MergeSeason(df, mf)
      ks == SortedInts({j[i].season : i \in DOMAIN j} \ {NaN})
  IN [i \in DOMAIN ks |->
        [season |-> ks[i],
         season_runs |-> SumRuns(SelectSeq(j, LAMBDA x : x.season = ks[i]))]]
\* bat_season[batter == selected].groupby("season")["batsman_runs"].sum()
\* .sort_values("season"): groups with a missing season are dropped
BatSeasonGrp(df, mf, selected) ==
  LET j == SelectSeq(MergeSeason(df, mf), LAMBDA x : x.row.batter = selected)
      ks == SortedInts({j[i].season : i \in DOMAIN j} \ {NaN})
  IN [i \in DOMAIN ks |->
        [season |-> ks[i],
         season_runs |-> SumRuns(SelectSeq(j, LAMBDA x : x.season = ks[i]))]]
\* round(total_runs / total_balls * 100, 2) if total_balls > 0 else 0
StrikeRate(runs, balls) ==
  IF balls > 0 THEN RoundHundredths(runs * 100, balls) ELSE 0

\* ---- Bowling Analysis (lines 419-466)
NotCredited == {"run out", "retired hurt", "obstructing the field"}
\* mutant: every wicket is credited to the bowler
WicketDf_AllWickets(df) == SelectSeq(df, LAMBDA r : r.is_wicket = 1)
\* wicket_df: is_wicket == 1 and dismissal_kind not one of NotCredited
WicketDf(df) ==
  SelectSeq(df, LAMBDA r : r.is_wicket = 1
                           /\ ~Isin(r.dismissal_kind, NotCredited))
\* groupby("bowler")["is_wicket"].count().sort_values(descending)
BowlerWk(wdf) ==
  LET ks == SortedNames(NonNullNames(wdf, "bowler"))
      g == [i \in DOMAIN ks |->
              [bowler |-> ks[i],
               wickets_taken |-> CountNonNull(wdf, "bowler", ks[i],
                                              "is_wicket")]]
  IN SortDesc(g, "wickets_taken")
\* b_df = deliveries_f[deliveries_f["bowler"] == selected_bowler]
BDf(df, selected) == RowsEq(df, "bowler", selected)
\* mutant: no-balls count as legal balls
LegalDel_WidesOnly(bdf, cols) ==
  IF "extras_type" \in cols
  THEN SelectSeq(bdf, LAMBDA r : ~Isin(r.extras_type, {"wides"}))
  ELSE bdf
\* legal_del: not wides, not noballs; every row when extras_type is absent
LegalDel(bdf, cols) ==
  IF "extras_type" \in cols
  THEN SelectSeq(bdf, LAMBDA r : ~Isin(r.extras_type, {"wides", "noballs"}))
  ELSE bdf
\* overs = balls / 6; economy = round(runs / overs, 2) if overs > 0 else 0
Economy(runs, balls) ==
  IF balls > 0 THEN RoundHundredths(runs * BallsPerOver, balls) ELSE 0
\* wicket_df[wicket_df["bowler"] == selected_bowler].shape[0]
WicketsTaken(wdf, selected) == Len(RowsEq(wdf, "bowler", selected))
\* bowl_season: the selected bowler's credited wickets joined to matches_f,
\* counted by season, groups with a missing season dropped
BowlSeasonGrp(df, mf, selected) ==
  LET j == SelectSeq(MergeSeason(df, mf),
                     LAMBDA x : x.row.bowler = selected
                                /\ x.row.is_wicket = 1
                                /\ ~Isin(x.row.dismissal_kind, NotCredited))
      ks == SortedInts({j[i].season : i \in DOMAIN j} \ {NaN})
  IN [i \in DOMAIN ks |->
        [season |-> ks[i],
         season_wickets |-> Len(SelectSeq(j, LAMBDA x : x.season = ks[i]))]]

\* ------------------------------------------------- the pass, step by step
\* Lines 56-63: title and introduction.
Title ==
  /\ pc = "title"
  /\ shown' = shown \cup {"title"}
  /\ pc' = "sidebar"
  /\ UNCHANGED <<pass, error, scriptvars, loadvars, tablevars, filtervars,
                 derivedvars, panelvars>>

\* Lines 65-91: the two sidebar controls.  The user's selection is any
\* subset of the season options and any of "All" and the teams.
SidebarFilters ==
  /\ pc = "sidebar"
  /\ seasons' = SeasonOptions(matches)
  /\ \E sel \in SUBSET Range(SeasonOptions(matches)) : selected_seasons' = sel
  /\ teams' = TeamOptions(matches)
  /\ \E t \in {"All"} \cup Range(TeamOptions(matches)) : selected_team' = t
  /\ accessed' = accessed \cup {"matches"}
  /\ shown' = shown \cup {"sidebar"}
  /\ pc' = "filter"
  /\ UNCHANGED <<pass, error, ns, loadvars, tablevars, derivedvars, panelvars>>

\* Lines 93-98.  deliveries["match_id"] raises KeyError when the column is
\* absent; nothing catches it, the pass ends there.
FilterDerivation ==
  /\ pc = "filter"
  /\ matches_f' = MatchesF(matches, selected_seasons)
  /\ accessed' = accessed \cup {"matches", "deliveries"}
  /\ IF "match_id" \in dcols
     THEN /\ deliveries_f' = DeliveriesF(deliveries, matches_f')
          /\ pc' = "overview"
          /\ error' = error
     ELSE /\ deliveries_f' = deliveries_f
          /\ pc' = "crashed"
          /\ error' = "KeyError"
  /\ UNCHANGED <<pass, shown, ns, loadvars, tablevars, filtervars, panelvars>>

\* Lines 107-136: the KPIs and the matches-per-season count that read the
\* modelled columns.
Overview ==
  /\ pc = "overview"
  /\ overview' =
       [ran |-> TRUE,
        total_matches |-> Len(matches_f),
        total_seasons |-> Cardinality(NonNullInts(matches_f, "season")),
        total_teams |-> Len(teams),
        matches_per_season |->
          LET ks == SeasonOptions(matches_f)
          IN [i \in DOMAIN ks |->
                [season |-> ks[i],
                 matches |-> CountNonNull(matches_f, "season", ks[i], "id")]]]
  /\ shown' = shown \cup {"overview"}
  /\ pc' = "team"
  /\ UNCHANGED <<pass, error, scriptvars, loadvars, tablevars, filtervars,
                 derivedvars, team_stats, batting, bowling>>

\* Lines 195-270: team_stats and the focus team's three metrics.
TeamMetrics(ts, team) ==
  LET tm_row == SelectSeq(ts, LAMBDA r : r.team = team)
  IN IF team # "All" /\ tm_row # <<>>
     THEN <<tm_row[1].matches_played, tm_row[1].wins,
            RoundHundredths(tm_row[1].win_pct[1], tm_row[1].win_pct[2])>>
     ELSE <<>>
TeamAnalysis ==
  /\ pc = "team"
  /\ \E ts \in {TeamStats(matches_f)} :
       team_stats' = [ran |-> TRUE, rows |-> ts,
                      metrics |-> TeamMetrics(ts, selected_team)]
  /\ shown' = shown \cup {"team"}
  /\ pc' = "batting"
  /\ UNCHANGED <<pass, error, scriptvars, loadvars, tablevars, filtervars,
                 derivedvars, overview, batting, bowling>>

\* the values the two top-N sliders can be set to
TopNChoices == {TopNMin, TopNDefault, TopNMax}
\* options of a selectbox: the user picks one; None when there are none
Pick(options) == IF options = {} THEN {NoSelection} ELSE options

\* Lines 351-385: the detail view of the selected batter.
BatterDetail(df, mf, top_batters, selected_batter, p_df) ==
  [ran |-> TRUE,
   top_batters |-> top_batters,
   selected_batter |-> selected_batter,
   total_runs |-> SumCol(p_df, "batsman_runs"),
   total_balls |-> Len(p_df),
   fours |-> Len(RowsEq(p_df, "batsman_runs", 4)),
   sixes |-> Len(RowsEq(p_df, "batsman_runs", 6)),
   strike_rate |-> StrikeRate(SumCol(p_df, "batsman_runs"), Len(p_df)),
   bat_season_grp |-> BatSeasonGrp(df, mf, selected_batter)]

\* Lines 323-411.
BattingAnalysis ==
  /\ pc = "batting"
  /\ IF {"batter", "batsman_runs"} \subseteq dcols
     THEN \E top_n_bat \in TopNChoices :
          \E top_batters \in {Head_n(BatterRuns(deliveries_f), top_n_bat)} :
          \E selected_batter \in
               Pick({top_batters[i].batter : i \in DOMAIN top_batters}) :
          \E p_df \in {PDf(deliveries_f, selected_batter)} :
             batting' = BatterDetail(deliveries_f, matches_f, top_batters,
                                     selected_batter, p_df)
     ELSE batting' = [ran |-> TRUE, missing |-> TRUE]
  /\ shown' = shown \cup {"batting"}
  /\ pc' = "bowling"
  /\ UNCHANGED <<pass, error, scriptvars, loadvars, tablevars, filtervars,
                 derivedvars, overview, team_stats, bowling>>

\* Lines 449-492: the detail view of the selected bowler.
BowlerDetail(df, mf, cols, wicket_df, top_bowlers, selected_bowler, b_df) ==
  [ran |-> TRUE,
   top_bowlers |-> top_bowlers,
   selected_bowler |-> selected_bowler,
   runs_conceded |-> SumCol(b_df, "total_runs"),
   balls_bowled |-> Len(LegalDel(b_df, cols)),
   economy |-> Economy(SumCol(b_df, "total_runs"), Len(LegalDel(b_df, cols))),
   wickets_taken |-> WicketsTaken(wicket_df, selected_bowler),
   bowl_season_grp |-> BowlSeasonGrp(df, mf, selected_bowler)]

\* Lines 416-504.
BowlingAnalysis ==
  /\ pc = "bowling"
  /\ IF {"bowler", "is_wicket", "dismissal_kind", "total_runs"}
          \subseteq dcols
     THEN \E top_n_bowl \in TopNChoices :
          \E wicket_df \in {WicketDf(deliveries_f)} :
          \E top_bowlers \in {Head_n(BowlerWk(wicket_df), top_n_bowl)} :
          \E selected_bowler \in
               Pick({top_bowlers[i].bowler : i \in DOMAIN top_bowlers}) :
          \E b_df \in {BDf(deliveries_f, selected_bowler)} :
             bowling' = BowlerDetail(deliveries_f, matches_f, dcols, wicket_df,
                                     top_bowlers, selected_bowler, b_df)
     ELSE bowling' = [ran |-> TRUE, missing |-> TRUE]
  /\ shown' = shown \cup {"bowling"}
  /\ pc' = "done"
  /\ UNCHANGED <<pass, error, scriptvars, loadvars, tablevars, filtervars,
                 derivedvars, overview, team_stats, batting>>

PassNext ==
  \/ Title
  \/ SidebarFilters
  \/ FilterDerivation
  \/ Overview
  \/ TeamAnalysis
  \/ BattingAnalysis
  \/ BowlingAnalysis

\* ------------------------------------------------ input tables of a pass
MatchRow(id, season, t1, t2, w) ==
  [id |-> id, season |-> season, team1 |-> t1, team2 |-> t2, winner |-> w]
DeliveryRow(mid, batter, bruns, bowler, truns, extras, wk, kind) ==
  [match_id |-> mid, batter |-> batter, batsman_runs |-> bruns,
   bowler |-> bowler, total_runs |-> truns, extras_type |-> extras,
   is_wicket |-> wk, dismissal_kind |-> kind]

\* non-decreasing index sequences: one table per multiset of row kinds
NonDecreasing(n, k) ==
  {s \in [1..n -> 1..k] : \A i \in 1..(n - 1) : s[i] <= s[i + 1]}

\* Filter/batting inputs: up to MaxMatches matches with ids 1..n and a
\* season that may be missing; deliveries of two batters that reference the
\* ids 1..MaxMatches+1 (the last one is never a match id).
SeasonValues == {2020, 2021, NaN}
FilterMatches ==
  UNION {{[i \in 1..n |-> MatchRow(i, f[i], NaS, NaS, NaS)] :
            f \in [1..n -> SeasonValues]} : n \in 0..MaxMatches}
BatKinds == <<[batter |-> "p", runs |-> 4], [batter |-> "q", runs |-> 1]>>
FilterDeliveryKind(k) ==
  LET mid == ((k - 1) \div Len(BatKinds)) + 1
      b == BatKinds[((k - 1) % Len(BatKinds)) + 1]
  IN DeliveryRow(mid, b.batter, b.runs, "x", b.runs, NaS, 0, NaS)
FilterDeliveries ==
  UNION {{[i \in 1..n |-> FilterDeliveryKind(s[i])] :
            s \in NonDecreasing(n, (MaxMatches + 1) * Len(BatKinds))} :
         n \in 0..MaxDeliveries}

\* Team inputs: matches between A/B (team1) and B/C (team2), won by A, by C
\* or by nobody; seasons alternate by row.
TeamMatchRows(i) ==
  {MatchRow(i, 2020 + ((i - 1) % 2), t1, t2, w) :
     t1 \in {"A", "B"}, t2 \in {"B", "C"}, w \in {"A", "C", NaS}}
TeamMatchTables ==
  UNION {{m \in [1..n -> UNION {TeamMatchRows(i) : i \in 1..n}] :
            \A i \in 1..n : m[i].id = i} : n \in 0..MaxMatches}

\* Bowling inputs: one match; either up to MaxDeliveries deliveries of any
\* bowler / runs / wicket kind, or up to MaxBalls deliveries of six kinds
\* that include wides and no-balls.
OneMatch == <<MatchRow(1, 2020, NaS, NaS, NaS)>>
WicketKinds == {<<0, NaS>>, <<1, "caught">>, <<1, "run out">>, <<1, NaS>>}
BowlRows ==
  {DeliveryRow(1, "p", r, b, r, NaS, w[1], w[2]) :
     b \in {"x", "y"}, r \in {0, 1}, w \in WicketKinds}
BallKinds ==
  <<DeliveryRow(1, "p", 1, "x", 1, NaS, 1, "caught"),
    DeliveryRow(1, "p", 0, "x", 0, NaS, 1, "run out"),
    DeliveryRow(1, "p", 0, "x", 1, "wides", 0, NaS),
    DeliveryRow(1, "p", 0, "x", 0, "legbyes", 0, NaS),
    DeliveryRow(1, "p", 0, "y", 1, "noballs", 1, "bowled"),
    DeliveryRow(1, "p", 4, "y", 4, NaS, 1, "retired hurt")>>
BowlTables ==
  UNION {[1..n -> BowlRows] : n \in 0..MaxDeliveries}
  \cup UNION {{[i \in 1..n |-> BallKinds[s[i]]] :
                 s \in NonDecreasing(n, Len(BallKinds))} : n \in 0..MaxBalls}

\* ============================================ the files and load_data
\* The canonical match schema that load_data assigns (lines 36-40).
CanonicalCols ==
  <<"id", "season", "city", "date", "match_type", "player_of_match", "venue",
    "team1", "team2", "toss_winner", "toss_decision", "winner", "result",
    "result_margin", "target_runs", "target_overs", "super_over", "method",
    "umpire1", "umpire2">>

Replace(seq, old, new) ==
  [j \in DOMAIN seq |-> IF seq[j] = old THEN new ELSE seq[j]]
\* headers a matches file may carry
AliasedHeader ==
  Replace(Replace(Replace(CanonicalCols, "team1", "team_1"),
                  "team2", "team_2"), "winner", "match_winner")
AliasedMovedHeader ==
  Replace(Replace(Replace(AliasedHeader, "match_winner", "tmp"),
                  "result", "match_winner"), "tmp", "result")
AliasOnlyHeader == <<"match_winner", "team_1", "team_2">>
ShortHeader == SubSeq(CanonicalCols, 1, NumCanonicalCols - 1)
LongHeader == CanonicalCols \o <<"win_by_runs">>
CollapsedHeader == <<"id,season,...,umpire2">>
\* A matches file: the header read_csv finds; whether the default read works
\* ("ok"), fails while the header=None read works ("retry"), or both fail;
\* for a one-column file the cell type and the number of comma-separated
\* fields of its rows; and whether the fourth column holds parseable dates.
MatchFiles ==
  {[header |-> h, read |-> r, cell |-> "text", fields |-> Len(h), dates |-> d] :
     h \in {CanonicalCols, AliasedHeader, AliasedMovedHeader, AliasOnlyHeader,
            ShortHeader, LongHeader},
     r \in {"ok", "retry", "fail"}, d \in {"dates", "garbage"}}
  \cup
  {[header |-> CollapsedHeader, read |-> r, cell |-> c, fields |-> f,
    dates |-> d] :
     r \in {"ok", "retry"}, c \in {"text", "number"},
     f \in {NumCanonicalCols - 1, NumCanonicalCols}, d \in {"dates", "garbage"}}
CanonicalMatchFile ==
  [header |-> CanonicalCols, read |-> "ok", cell |-> "text",
   fields |-> NumCanonicalCols, dates |-> "dates"]

\* A header cell of deliveries.csv: its text once stripped and lowercased,
\* and whether the file has it with padding or capitals.
RawName(text, form) == [text |-> text, form |-> form]
DeliveryNames ==
  <<"match_id", "batter", "bowler", "batsman_runs", "total_runs",
    "extras_type", "is_wicket", "dismissal_kind">>
DeliveryHeader(form) ==
  [j \in DOMAIN DeliveryNames |-> RawName(DeliveryNames[j], form)]
DeliveryFiles ==
  {[header |-> h, read |-> r] :
     h \in {DeliveryHeader("clean"), DeliveryHeader("padded"),
            Tail(DeliveryHeader("clean"))},
     r \in {"ok", "fail"}}
CanonicalDeliveryFile == [header |-> DeliveryHeader("clean"), read |-> "ok"]

\* columns.str.strip().str.lower() (lines 43, 47)
Canon(name) == RawName(name.text, "clean")
CleanColumns(header) == [j \in DOMAIN header |-> Canon(header[j])]

\* Lines 26-29: how often the matches file is read, and whether a table came
\* out of it.
MatchReads(mf) == IF mf.read = "ok" THEN 1 ELSE 2
\* Lines 32-33: the number of columns after the one-column repair.
SplitWidth(mf) ==
  IF Len(mf.header) = 1 THEN mf.fields ELSE Len(mf.header)
\* .str on a one-column table of numbers raises AttributeError
SplitRaises(mf) ==
  Len(mf.header) = 1 /\ mf.cell = "number" /\ mf.read = "ok"
\* Lines 36-43: the table with the 20 names assigned by position.  A column
\* keeps its data: origin says which column (or which field of the single
\* collapsed column) of the file it came from.
AssignColumns(mf) ==
  [cols |-> [j \in 1..NumCanonicalCols |->
               [name |-> CanonicalCols[j],
                origin |-> IF Len(mf.header) = 1
                           THEN [col |-> mf.header[1], pos |-> j]
                           ELSE [col |-> mf.header[j], pos |-> j]]],
   date_content |-> IF mf.read = "retry" THEN "garbage" ELSE mf.dates,
   date_type |-> "object"]
\* Lines 24-49: load_data() on the two files: the exception it ends in or
\* "ok", the tables it returns, and the reads it made.
LoadData(mf, df) ==
  IF mf.read = "fail"
  THEN [status |-> "ParserError", mreads |-> MatchReads(mf), dreads |-> 0]
  ELSE IF SplitRaises(mf)
  THEN [status |-> "AttributeError", mreads |-> MatchReads(mf), dreads |-> 0]
  ELSE IF SplitWidth(mf) # NumCanonicalCols
  THEN [status |-> "ValueError", mreads |-> MatchReads(mf), dreads |-> 0]
  ELSE IF df.read = "fail"
  THEN [status |-> "FileNotFoundError", mreads |-> MatchReads(mf),
        dreads |-> 1]
  ELSE [status |-> "ok", mreads |-> MatchReads(mf), dreads |-> 1,
        matches |-> AssignColumns(mf),
        deliveries |-> [cols |-> CleanColumns(df.header)]]

NoReads == [matches |-> 0, deliveries |-> 0]
\* The process state around a pass that does not call load_data.
LoadIdle ==
  /\ mfile = CanonicalMatchFile
  /\ dfile = CanonicalDeliveryFile
  /\ cache = <<>>
  /\ file_reads = NoReads
  /\ loaded = <<>>

\* State at line 56 of a pass whose tables are bound.
PassStart ==
  /\ pc = "title"
  /\ pass = 1
  /\ error = "none"
  /\ shown = {}
  /\ ns = {"load_data", "matches", "deliveries"}
  /\ accessed = {}
  /\ seasons = <<>>
  /\ selected_seasons = {}
  /\ teams = <<>>
  /\ selected_team = "All"
  /\ matches_f = <<>>
  /\ deliveries_f = <<>>
  /\ overview = NotRun
  /\ team_stats = NotRun
  /\ batting = NotRun
  /\ bowling = NotRun

InitFilter ==
  /\ PassStart
  /\ LoadIdle
  /\ matches \in FilterMatches
  /\ deliveries \in FilterDeliveries
  /\ dcols \in {AllDCols} \cup
               (IF Len(deliveries) <= 1 THEN {AllDCols \ {"match_id"}} ELSE {})
SpecFilter == InitFilter /\ [][PassNext]_vars

InitTeam ==
  /\ PassStart
  /\ LoadIdle
  /\ matches \in TeamMatchTables
  /\ deliveries = <<>>
  /\ dcols = AllDCols
SpecTeam == InitTeam /\ [][PassNext]_vars

InitBowl ==
  /\ PassStart
  /\ LoadIdle
  /\ matches = OneMatch
  /\ deliveries \in BowlTables
  /\ dcols \in {AllDCols, AllDCols \ {"extras_type"}}
SpecBowl == InitBowl /\ [][PassNext]_vars

\* ====================================================== claims: the pass
\* sum of f over the index set S
RECURSIVE SumOver(_, _)
SumOver(f, S) ==
  IF S = {} THEN 0
  ELSE LET i == CHOOSE x \in S : TRUE IN f[i] + SumOver(f, S \ {i})
\* how often row r occurs in table t
Occurrences(t, r) == Cardinality({i \in DOMAIN t : t[i] = r})
FilterDone == pc \in {"overview", "team", "batting", "bowling", "done"}

\* C1: matches_f holds exactly the match rows whose season is selected (each
\* as often as in matches, and nothing else), or all of matches when nothing
\* is selected; deliveries_f holds exactly the delivery rows whose match_id
\* is an id of matches_f, so a delivery of an unknown match is dropped.
C1_FilterExact ==
  FilterDone =>
    LET ids == {matches_f[i].id : i \in DOMAIN matches_f}
        keepM == {i \in DOMAIN matches : matches[i].season \in selected_seasons}
        keepD == {i \in DOMAIN deliveries : deliveries[i].match_id \in ids}
    IN /\ selected_seasons = {} => matches_f = matches
       /\ selected_seasons # {} =>
            /\ Len(matches_f) = Cardinality(keepM)
            /\ \A i \in DOMAIN matches :
                 Occurrences(matches_f, matches[i]) =
                   IF i \in keepM THEN Occurrences(matches, matches[i]) ELSE 0
       /\ Len(deliveries_f) = Cardinality(keepD)
       /\ \A i \in DOMAIN deliveries :
            Occurrences(deliveries_f, deliveries[i]) =
              IF i \in keepD THEN Occurrences(deliveries, deliveries[i]) ELSE 0
       /\ \A j \in DOMAIN deliveries_f :
            \E i \in DOMAIN matches : matches[i].id = deliveries_f[j].match_id
C1_Witness ==
  /\ pc = "done"
  /\ selected_seasons # {}
  /\ 0 < Len(matches_f) /\ Len(matches_f) < Len(matches)
  /\ 0 < Len(deliveries_f) /\ Len(deliveries_f) < Len(deliveries)
  /\ \E i \in DOMAIN deliveries : deliveries[i].match_id > Len(matches)

BatterShown ==
  /\ batting # NotRun
  /\ "selected_batter" \in DOMAIN batting
  /\ batting.selected_batter # NoSelection
SeriesTotal ==
  SumOver([i \in DOMAIN batting.bat_season_grp |->
             batting.bat_season_grp[i].season_runs],
          DOMAIN batting.bat_season_grp)
\* season of the match a filtered delivery belongs to (ids are unique)
SeasonOf(d) ==
  matches_f[CHOOSE i \in DOMAIN matches_f : matches_f[i].id = d.match_id].season

\* C10 as stated: the season-wise run series of the selected batter adds up
\* to the Runs metric shown for that batter.
C10_SeriesEqualsRuns ==
  BatterShown => SeriesTotal = batting.total_runs
\* C10 amended: the series adds up to the batter's runs off the filtered
\* deliveries whose match has a season; it equals the Runs metric whenever
\* the season selection is not empty.
C10_SeriesSeasonedRuns ==
  BatterShown =>
    LET mine == {i \in DOMAIN deliveries_f :
                   /\ deliveries_f[i].batter = batting.selected_batter
                   /\ SeasonOf(deliveries_f[i]) # NaN}
        all == {i \in DOMAIN deliveries_f :
                  deliveries_f[i].batter = batting.selected_batter}
    IN /\ SeriesTotal =
            SumOver([i \in DOMAIN deliveries_f |->
                       deliveries_f[i].batsman_runs], mine)
       /\ batting.total_runs =
            SumOver([i \in DOMAIN deliveries_f |->
                       deliveries_f[i].batsman_runs], all)
       /\ selected_seasons # {} => SeriesTotal = batting.total_runs
       /\ \A i, j \in DOMAIN batting.bat_season_grp :
            i < j => batting.bat_season_grp[i].season
                       < batting.bat_season_grp[j].season
C10_Witness ==
  /\ BatterShown
  /\ Len(batting.bat_season_grp) = 2
  /\ Len(matches_f) = 2
  /\ batting.total_runs = 8

WicketCredited(d) ==
  /\ d.is_wicket = 1
  /\ d.dismissal_kind \notin {"run out", "retired hurt", "obstructing the field"}
CreditedCount(b) ==
  Cardinality({i \in DOMAIN deliveries_f :
                 deliveries_f[i].bowler = b /\ WicketCredited(deliveries_f[i])})
BowlerListed == bowling # NotRun /\ "top_bowlers" \in DOMAIN bowling

\* C7: a bowler's wicket count, on the leaderboard and in the detail view, is
\* the number of that bowler's filtered deliveries with is_wicket = 1 and a
\* dismissal kind other than run out, retired hurt, obstructing the field;
\* every bowler with such a delivery is listed, and the two counts of the
\* selected bowler agree.
C7_WicketCredit ==
  BowlerListed =>
    /\ \A i \in DOMAIN bowling.top_bowlers :
         bowling.top_bowlers[i].wickets_taken =
           CreditedCount(bowling.top_bowlers[i].bowler)
    /\ \A j \in DOMAIN deliveries_f :
         WicketCredited(deliveries_f[j]) =>
           Cardinality({i \in DOMAIN bowling.top_bowlers :
              bowling.top_bowlers[i].bowler = deliveries_f[j].bowler}) = 1
    /\ bowling.wickets_taken = CreditedCount(bowling.selected_bowler)
    /\ \A i \in DOMAIN bowling.top_bowlers :
         bowling.top_bowlers[i].bowler = bowling.selected_bowler =>
           bowling.top_bowlers[i].wickets_taken = bowling.wickets_taken
C7_Witness ==
  /\ BowlerListed
  /\ bowling.wickets_taken = 1
  /\ \E i \in DOMAIN deliveries_f :
       /\ deliveries_f[i].bowler = bowling.selected_bowler
       /\ deliveries_f[i].is_wicket = 1
       /\ deliveries_f[i].dismissal_kind = "run out"
  /\ \E i \in DOMAIN deliveries_f :
       /\ deliveries_f[i].bowler = bowling.selected_bowler
       /\ deliveries_f[i].is_wicket = 1
       /\ deliveries_f[i].dismissal_kind = NaS

BowlerRows ==
  {i \in DOMAIN deliveries_f : deliveries_f[i].bowler = bowling.selected_bowler}
LegalRows ==
  IF "extras_type" \in dcols
  THEN {i \in BowlerRows :
          deliveries_f[i].extras_type \notin {"wides", "noballs"}}
  ELSE BowlerRows
RunsAndBalls ==
  /\ bowling.runs_conceded =
       SumOver([i \in DOMAIN deliveries_f |-> deliveries_f[i].total_runs],
               BowlerRows)
  /\ bowling.balls_bowled = Cardinality(LegalRows)

\* C9 as stated: economy is exactly runs_conceded * 6 / legal_balls (economy
\* is held in hundredths), and 0 without a legal ball.
C9_EconomyExact ==
  BowlerListed =>
    /\ RunsAndBalls
    /\ bowling.balls_bowled > 0 =>
         bowling.economy * bowling.balls_bowled = 600 * bowling.runs_conceded
    /\ bowling.balls_bowled = 0 => bowling.economy = 0
\* C9 amended: economy is runs_conceded * 6 / legal_balls rounded to two
\* decimals (the nearest hundredth), and 0 without a legal ball; 24 runs off
\* 24 legal balls give 6.00.
C9_EconomyRounded ==
  BowlerListed =>
    /\ RunsAndBalls
    /\ bowling.balls_bowled > 0 =>
         LET diff == bowling.economy * bowling.balls_bowled
                       - 600 * bowling.runs_conceded
         IN 2 * diff <= bowling.balls_bowled /\ -2 * diff <= bowling.balls_bowled
    /\ bowling.balls_bowled = 0 => bowling.economy = 0
    /\ Economy(24, 24) = 600
C9_Witness ==
  /\ BowlerListed
  /\ bowling.selected_bowler # NoSelection
  /\ "extras_type" \in dcols
  /\ bowling.balls_bowled = BallsPerOver
  /\ \E i \in BowlerRows : deliveries_f[i].extras_type = "wides"
  /\ bowling.runs_conceded = 2
  /\ 600 * bowling.runs_conceded % bowling.balls_bowled = 0

TeamDone == team_stats # NotRun
PlaysIn(t) ==
  {i \in DOMAIN matches_f : matches_f[i].team1 = t}
WinsOf(t) == {i \in DOMAIN matches_f : matches_f[i].winner = t}
\* C8: every team of team1 or team2 of the filtered matches has one row in
\* team_stats, with matches_played = its rows as team1 + its rows as team2,
\* wins = its rows as winner, and win_pct = wins / matches_played * 100
\* (0 when it played nothing); 4 of 10 is 40.
C8_TeamStats ==
  TeamDone =>
    /\ \A t \in {matches_f[i].team1 : i \in DOMAIN matches_f}
                \cup {matches_f[i].team2 : i \in DOMAIN matches_f} :
         t # NaS =>
           /\ Cardinality({i \in DOMAIN team_stats.rows :
                             team_stats.rows[i].team = t}) = 1
           /\ \A i \in DOMAIN team_stats.rows :
                team_stats.rows[i].team = t =>
                  LET r == team_stats.rows[i]
                      played == Cardinality(PlaysIn(t))
                                + Cardinality({j \in DOMAIN matches_f :
                                                 matches_f[j].team2 = t})
                  IN /\ r.matches_played = played
                     /\ r.wins = Cardinality(WinsOf(t))
                     /\ played > 0 =>
                          r.win_pct[1] * played = r.wins * 100 * r.win_pct[2]
                     /\ r.win_pct[2] > 0
    /\ WinPct(4, 10)[1] = 40 * WinPct(4, 10)[2]
    /\ WinPct(0, 0)[1] = 0
C8_Witness ==
  /\ pc = "done"
  /\ Len(matches) = 2
  /\ selected_seasons = {2020}
  /\ Len(matches_f) = 1
  /\ matches_f[1].team1 = "A" /\ matches_f[1].team2 = "B"
  /\ matches_f[1].winner = "A"
  /\ \E i \in DOMAIN team_stats.rows :
       /\ team_stats.rows[i].team = "A"
       /\ team_stats.rows[i].matches_played = 1
       /\ team_stats.rows[i].wins = 1
       /\ team_stats.rows[i].win_pct[1] = 100 * team_stats.rows[i].win_pct[2]
  /\ \E i \in DOMAIN team_stats.rows :
       /\ team_stats.rows[i].team = "B"
       /\ team_stats.rows[i].wins = 0
       /\ team_stats.rows[i].win_pct[1] = 0

\* ============================================== the script as written
\* Lines 10-14.
SetPageConfig ==
  /\ pc = "set_page_config"
  /\ shown' = shown \cup {"page_config"}
  /\ pc' = "def_load_data"
  /\ UNCHANGED <<pass, error, scriptvars, loadvars, tablevars, filtervars,
                 derivedvars, panelvars>>

\* Lines 23-49: the def statement binds the name load_data; it does not call
\* it (the call of line 22 is a comment).
DefineLoadData ==
  /\ pc = "def_load_data"
  /\ ns' = ns \cup {"load_data"}
  /\ pc' = "date_parse"
  /\ UNCHANGED <<pass, error, shown, accessed, loadvars, tablevars, filtervars,
                 derivedvars, panelvars>>

\* matches["date"] = pd.to_datetime(matches["date"]) (line 54): raises on a
\* value that is no date
ToDatetime(m) == [m EXCEPT !.date_type = "datetime64"]
HasColumn(m, name) == \E j \in DOMAIN m.cols : m.cols[j].name = name

\* Lines 53-54.  Evaluating the name matches raises NameError when nothing
\* has bound it.
DateParse ==
  /\ pc = "date_parse"
  /\ accessed' = accessed \cup {"matches"}
  /\ IF "matches" \notin ns
     THEN /\ error' = "NameError"
          /\ pc' = "crashed"
          /\ matches' = matches
     ELSE IF HasColumn(matches, "date") /\ matches.date_content = "garbage"
     THEN /\ error' = "ValueError"
          /\ pc' = "crashed"
          /\ matches' = matches
     ELSE /\ error' = error
          /\ pc' = "parsed"
          /\ matches' = IF HasColumn(matches, "date")
                        THEN ToDatetime(matches) ELSE matches
  /\ UNCHANGED <<pass, shown, ns, loadvars, deliveries, dcols, filtervars,
                 derivedvars, panelvars>>

\* A user interaction or a reload runs the script again from its first
\* line, in a fresh namespace.
Rerun ==
  /\ pc = "crashed"
  /\ pass < MaxPasses
  /\ pass' = pass + 1
  /\ pc' = "set_page_config"
  /\ error' = "none"
  /\ ns' = {}
  /\ accessed' = {}
  /\ shown' = {}
  /\ UNCHANGED <<loadvars, tablevars, filtervars, derivedvars, panelvars>>

Unbound == "unbound"
\* The script as written, from line 10, with any two files on disk.
Init ==
  /\ pc = "set_page_config"
  /\ pass = 1
  /\ error = "none"
  /\ shown = {}
  /\ ns = {}
  /\ accessed = {}
  /\ mfile \in MatchFiles
  /\ dfile \in DeliveryFiles
  /\ cache = <<>>
  /\ file_reads = NoReads
  /\ loaded = <<>>
  /\ matches = Unbound
  /\ deliveries = Unbound
  /\ dcols = {}
  /\ seasons = <<>>
  /\ selected_seasons = {}
  /\ teams = <<>>
  /\ selected_team = "All"
  /\ matches_f = <<>>
  /\ deliveries_f = <<>>
  /\ overview = NotRun
  /\ team_stats = NotRun
  /\ batting = NotRun
  /\ bowling = NotRun
Next ==
  \/ SetPageConfig
  \/ DefineLoadData
  \/ DateParse
  \/ Rerun
Spec == Init /\ [][Next]_vars

\* ================================= load_data() called, pass after pass
\* @st.cache_data (line 23): the cache holds no entry (<<>>) or one.  A call
\* returns a copy of the stored result when there is one; otherwise it runs the body and stores the result, and an
\* exception of the body stores nothing.
CachedCall(entry, mf, df) ==
  IF entry # <<>>
  THEN [status |-> "ok", mreads |-> 0, dreads |-> 0,
        matches |-> entry[1].matches, deliveries |-> entry[1].deliveries,
        entry |-> entry]
  ELSE LET r == LoadData(mf, df)
       IN IF r.status = "ok"
          THEN [status |-> "ok", mreads |-> r.mreads, dreads |-> r.dreads,
                matches |-> r.matches, deliveries |-> r.deliveries,
                entry |-> <<[matches |-> r.matches,
                             deliveries |-> r.deliveries]>>]
          ELSE [status |-> r.status, mreads |-> r.mreads,
                dreads |-> r.dreads, entry |-> entry]

\* matches, deliveries = load_data(), the call that line 22 holds as a comment
\* and that the pipeline of the specification makes first in every pass.
CallLoadData ==
  /\ pc = "call_load_data"
  /\ \E r \in {CachedCall(cache, mfile, dfile)} :
       /\ file_reads' = [matches |-> file_reads.matches + r.mreads,
                         deliveries |-> file_reads.deliveries + r.dreads]
       /\ cache' = r.entry
       /\ IF r.status = "ok"
          THEN /\ loaded' = <<[matches |-> r.matches,
                             deliveries |-> r.deliveries]>>
               /\ matches' = r.matches
               /\ deliveries' = r.deliveries
               /\ dcols' = {r.deliveries.cols[j].text :
                              j \in DOMAIN r.deliveries.cols}
               /\ ns' = ns \cup {"matches", "deliveries"}
               /\ pc' = "date_parse"
               /\ error' = error
          ELSE /\ error' = r.status
               /\ pc' = "crashed"
               /\ UNCHANGED <<loaded, matches, deliveries, dcols, ns>>
  /\ UNCHANGED <<pass, shown, accessed, mfile, dfile, filtervars, derivedvars,
                 panelvars>>

\* The next pass of the same process: the namespace is fresh, the cache stays.
NextPass ==
  /\ pc \in {"crashed", "parsed"}
  /\ pass < MaxPasses
  /\ pass' = pass + 1
  /\ pc' = "call_load_data"
  /\ error' = "none"
  /\ ns' = {"load_data"}
  /\ accessed' = {}
  /\ matches' = Unbound
  /\ deliveries' = Unbound
  /\ dcols' = {}
  /\ UNCHANGED <<shown, loadvars, filtervars, derivedvars, panelvars>>

InitLoad ==
  /\ pc = "call_load_data"
  /\ pass = 1
  /\ error = "none"
  /\ shown = {}
  /\ ns = {"load_data"}
  /\ accessed = {}
  /\ mfile \in MatchFiles
  /\ dfile \in DeliveryFiles
  /\ cache = <<>>
  /\ file_reads = NoReads
  /\ loaded = <<>>
  /\ matches = Unbound
  /\ deliveries = Unbound
  /\ dcols = {}
  /\ seasons = <<>>
  /\ selected_seasons = {}
  /\ teams = <<>>
  /\ selected_team = "All"
  /\ matches_f = <<>>
  /\ deliveries_f = <<>>
  /\ overview = NotRun
  /\ team_stats = NotRun
  /\ batting = NotRun
  /\ bowling = NotRun
LoadNext ==
  \/ CallLoadData
  \/ DateParse
  \/ NextPass
SpecLoad == InitLoad /\ [][LoadNext]_vars

\* =========================================== claims: script and loading
\* C4: no step of a pass reads a table that load_data() has not bound
\* before; no pass ends in a NameError.
C4_ReadsOnlyLoaded ==
  /\ \A n \in accessed : n \in ns
  /\ error # "NameError"

\* C3: load_data() and the date parsing never end in an exception, whatever
\* the shape of the matches file and the values of its date column.
C3_NeverRaises == error = "none"

\* C5: only the first load_data() of the process reads the two files: no
\* step of a later pass reads either file again, and no step changes the
\* cached tables once they are stored.
C5_ReadOnce ==
  [][/\ pass' > 1 => file_reads' = file_reads
     /\ cache # <<>> => cache' = cache]_vars

\* C6: for a matches file with columns match_winner, team_1, team_2 and none
\* of winner, team1, team2, the loaded table has winner, team1, team2 holding
\* the data of match_winner, team_1, team_2.
HeaderHas(mf, name) == \E j \in DOMAIN mf.header : mf.header[j] = name
AliasInput ==
  /\ HeaderHas(mfile, "match_winner") /\ HeaderHas(mfile, "team_1")
  /\ HeaderHas(mfile, "team_2")
  /\ ~HeaderHas(mfile, "winner") /\ ~HeaderHas(mfile, "team1")
  /\ ~HeaderHas(mfile, "team2")
HoldsDataOf(m, name, alias) ==
  \E j \in DOMAIN m.cols :
    m.cols[j].name = name /\ m.cols[j].origin.col = alias
C6_AliasesReconciled ==
  (AliasInput /\ mfile.read = "ok" /\ dfile.read = "ok"
     /\ pc \in {"date_parse", "parsed", "crashed"}) =>
    /\ loaded # <<>>
    /\ HoldsDataOf(loaded[1].matches, "winner", "match_winner")
    /\ HoldsDataOf(loaded[1].matches, "team1", "team_1")
    /\ HoldsDataOf(loaded[1].matches, "team2", "team_2")

\* C2: when deliveries lacks match_id (or matches one of its five columns),
\* the pass shows a diagnostic and stops before the filter controls; no
\* panel runs.
SchemaMissing == "match_id" \notin dcols
C2_GateStopsPass ==
  SchemaMissing =>
    /\ "sidebar" \notin shown
    /\ shown \cap {"overview", "team", "batting", "bowling"} = {}
    /\ pc \in {"crashed", "done"} => "diagnostic" \in shown

====
